---- MODULE Spec2Model ----
(***************************************************************************)
(* Model of src/src/util.rs: the concurrent multi-process execution and    *)
(* result-aggregation engine (RunProgress handles, FlagTwin combinators,   *)
(* the report functions content_locate_binaries, content_ls, content_ls2). *)
(*                                                                         *)
(* A Rust String is a sequence of code points, a Vec<u8> a sequence of     *)
(* byte values.  Option and Result values are tagged records.              *)
(***************************************************************************)
EXTENDS Integers, Sequences, FiniteSets, TLC

\* ------------------------------------------------------------------ bounds

\* Sample child-process runs 0..MaxRun: run k exits with status k \div 2 and
\* prints the captured output SampleOutput(k % 2).
MaxRun == 3

\* Longest byte sequence SpecBytes gives to ascii_bytes_to_string.
MaxBytes == 3

\* Longest pairable().pair_first(..).pair(..) chain built by SpecPair.
MaxTwins == 4

\* ---------------------------------------------------------- string literals

\* "Expected to run "
S_EXPECTED_TO_RUN ==
    <<69, 120, 112, 101, 99, 116, 101, 100, 32, 116, 111, 32, 114, 117, 110, 32>>
\* ", but failed abruptly: "
S_BUT_FAILED_ABRUPTLY ==
    <<44, 32, 98, 117, 116, 32, 102, 97, 105, 108, 101, 100, 32, 97, 98, 114, 117, 112, 116, 108, 121, 58, 32>>
\* "."
S_DOT ==
    <<46>>
\* "OUT:\n"
S_OUT ==
    <<79, 85, 84, 58, 10>>
\* "\n\nERR:\n"
S_ERR ==
    <<10, 10, 69, 82, 82, 58, 10>>
\* " "
S_SPACE ==
    <<32>>
\* "\n"
S_NL ==
    <<10>>
\* ""
S_EMPTY ==
    <<>>
\* "/usr/bin/which"
S_USR_BIN_WHICH ==
    <<47, 117, 115, 114, 47, 98, 105, 110, 47, 119, 104, 105, 99, 104>>
\* "free"
S_FREE ==
    <<102, 114, 101, 101>>
\* "df"
S_DF ==
    <<100, 102>>
\* "mount"
S_MOUNT ==
    <<109, 111, 117, 110, 116>>
\* "tree"
S_TREE ==
    <<116, 114, 101, 101>>
\* "ls"
S_LS ==
    <<108, 115>>
\* "-l"
S_DASH_L ==
    <<45, 108>>
\* "."
S_CUR ==
    <<46>>
\* "/"
S_ROOT ==
    <<47>>
\* "/bin"
S_BIN ==
    <<47, 98, 105, 110>>
\* "/sbin"
S_SBIN ==
    <<47, 115, 98, 105, 110>>
\* "/tmp"
S_TMP ==
    <<47, 116, 109, 112>>
\* "ls -l . :\n"
S_LBL_CURRENT ==
    <<108, 115, 32, 45, 108, 32, 46, 32, 58, 10>>
\* "\n\nls -l / :\n"
S_LBL_ROOT ==
    <<10, 10, 108, 115, 32, 45, 108, 32, 47, 32, 58, 10>>
\* "\n\nls /bin :\n"
S_LBL_BIN ==
    <<10, 10, 108, 115, 32, 47, 98, 105, 110, 32, 58, 10>>
\* "\n\nls /sbin :\n"
S_LBL_SBIN ==
    <<10, 10, 108, 115, 32, 47, 115, 98, 105, 110, 32, 58, 10>>
\* "\n\nls -l /tmp :\n"
S_LBL_TMP ==
    <<10, 10, 108, 115, 32, 45, 108, 32, 47, 116, 109, 112, 32, 58, 10>>
\* Display of io::Error for errno 2: "No such file or directory (os error 2)"
S_ENOENT ==
    <<78, 111, 32, 115, 117, 99, 104, 32, 102, 105, 108, 101, 32, 111, 114, 32, 100, 105, 114, 101, 99, 116, 111, 114, 121, 32, 40, 111, 115, 32, 101, 114, 114, 111, 114, 32, 50, 41>>
\* Display of io::Error for errno 5: "Input/output error (os error 5)"
S_EIO ==
    <<73, 110, 112, 117, 116, 47, 111, 117, 116, 112, 117, 116, 32, 101, 114, 114, 111, 114, 32, 40, 111, 115, 32, 101, 114, 114, 111, 114, 32, 53, 41>>

\* ------------------------------------------------ Option / Result encoding

None == [tag |-> "None"]
Ok(v) == [tag |-> "Ok", val |-> v]
Err(e) == [tag |-> "Err", err |-> e]

\* The OS errors a spawn can fail with (std::io::Error, by errno name).
SpawnErrors == {"ENOENT"}
\* The OS errors reading the pipes or waiting for the exit can fail with.
IoErrors == {"EIO"}

\* Display of std::io::Error, as interpolated into RunError's text.
io_error_fmt(error) ==
    IF error = "ENOENT" THEN S_ENOENT ELSE S_EIO

\* ------------------------------------------------------ ProgramAndArgs, run

\* ProgramAndArgs { program, args }: args is the ordered argument list.
ProgramAndArgs(program, args) == [program |-> program, args |-> args]

RECURSIVE fmt_args(_)
\* for a in args { write!(f, " {}", a)?; }
fmt_args(args) ==
    IF args = <<>> THEN S_EMPTY
    ELSE S_SPACE \o Head(args) \o fmt_args(Tail(args))

\* Mutant of ProgramAndArgs_fmt: the arguments are left out.
ProgramAndArgs_fmt_program_only(self) == self.program

\* impl Display for ProgramAndArgs: the program, then each argument after a space.
ProgramAndArgs_fmt(self) == self.program \o fmt_args(self.args)

\* impl Display for RunError.
RunError_fmt(self) ==
    S_EXPECTED_TO_RUN \o self.program \o S_BUT_FAILED_ABRUPTLY
        \o io_error_fmt(self.error) \o S_DOT

\* Mutant of char_from: a byte outside ASCII becomes U+FFFD, as a lossy UTF-8
\* decoding would make it.
char_from_lossy(byte) == IF byte < 128 THEN byte ELSE 65533

\* char::from(byte): the code point with the byte's value.
char_from(byte) == byte

\* One char pushed per byte, in order.
ascii_bytes_to_string(bytes) == [i \in 1..Len(bytes) |-> char_from(bytes[i])]

\* -------------------------------------------------------------- FlagTwin

twin_result_value(r) == IF r.tag = "Ok" THEN r.val ELSE r.err

FlagTwin_new(r) == [is_ok |-> r.tag = "Ok", value |-> twin_result_value(r)]

\* Mutant of FlagTwin_link: a failed left operand is forgotten.
FlagTwin_link_right_flag(self, next) ==
    [is_ok |-> next.tag = "Ok",
     value |-> <<self.value, twin_result_value(next)>>]

FlagTwin_link(self, next) ==
    LET is_ok == self.is_ok /\ next.tag = "Ok"
        next_value == twin_result_value(next)
    IN  [is_ok |-> is_ok, value |-> <<self.value, next_value>>]

\* Mutant of FlagTwin_and: the two values are paired the other way round.
FlagTwin_and_swapped(self, next) ==
    [is_ok |-> self.is_ok /\ next.is_ok, value |-> <<next.value, self.value>>]

FlagTwin_and(self, next) ==
    [is_ok |-> self.is_ok /\ next.is_ok, value |-> <<self.value, next.value>>]

FlagTwin_split(self) == <<self.is_ok, self.value>>

pairable(self) ==
    [is_ok |-> self.is_ok, value |-> <<self.is_ok, self.value>>]

pair_first(self, next) ==
    [is_ok |-> self.is_ok /\ next.is_ok,
     value |-> <<self.value, <<next.is_ok, next.value>>>>]

\* Mutant of pair: the conjunction is stored in place of the leaf's own flag.
pair_conjunction_as_flag(self, next) ==
    [is_ok |-> self.is_ok /\ next.is_ok,
     value |-> <<self.value, <<self.is_ok /\ next.is_ok, next.value>>>>]

pair(self, next) ==
    [is_ok |-> self.is_ok /\ next.is_ok,
     value |-> <<self.value, <<next.is_ok, next.value>>>>]

\* ------------------------------------------------- processes and handles

\* Mutant of command: kill_on_drop is left at its default.
command_no_kill_on_drop(self) ==
    [program |-> self.program, args |-> self.args, kill_on_drop |-> FALSE]

\* Command::new(program), kill_on_drop(true), args(args).
command(self) ==
    [program |-> self.program, args |-> self.args, kill_on_drop |-> TRUE]

\* Mutant of Command_output: nothing is spawned until the future is polled.
Command_output_lazy(cmd, os) ==
    [st |-> "unborn", kill_on_drop |-> cmd.kill_on_drop]

\* command.output(): the child is spawned when output() is called, not when
\* the returned future is first polled; os is the outcome of the spawn.
Command_output(cmd, os) ==
    [st |-> IF os = "ok" THEN "running" ELSE "spawn_failed",
     kill_on_drop |-> cmd.kill_on_drop]

\* Mutant of ProgramAndArgs_run: a spawn that fails leaves no handle, the
\* failure is raised where the handle is created.
ProgramAndArgs_run_spawn_checked(self, os) ==
    [progress |-> IF os = "ok"
                  THEN [tag |-> "RunProgress",
                        program |-> self,
                        command |-> command(self),
                        future |-> [tag |-> "Some", val |-> Ok("child")]]
                  ELSE [tag |-> "Panic"],
     child |-> Command_output(command(self), os)]

\* ProgramAndArgs::run: the handle (RunProgress) and the child it is bound to.
\* future holds the spawn's result: the child, or the spawn's error.
ProgramAndArgs_run(self, os) ==
    [progress |-> [tag |-> "RunProgress",
                   program |-> self,
                   command |-> command(self),
                   future |-> [tag |-> "Some",
                               val |-> IF os = "ok" THEN Ok("child") ELSE Err(os)]],
     child |-> Command_output(command(self), os)]

run(program, args, os) == ProgramAndArgs_run(ProgramAndArgs(program, args), os)

where_is(program_to_locate, os) == run(S_USR_BIN_WHICH, <<program_to_locate>>, os)

ls(path_to_ls, os) == run(S_LS, <<path_to_ls>>, os)

ls_l(path_to_ls, os) == run(S_LS, <<S_DASH_L, path_to_ls>>, os)

\* Dropping a spawned child: with kill_on_drop a child that has not exited
\* is killed; a child that has exited is reaped.
drop_child(c) ==
    IF c.st \in {"running", "blocked"}
    THEN IF c.kill_on_drop THEN [c EXCEPT !.st = "killed"] ELSE c
    ELSE IF c.st = "exited" THEN [st |-> "reaped", kill_on_drop |-> c.kill_on_drop]
    ELSE c

\* future.await of a handle, child?.wait_with_output(): whether it is ready.
\* fault is "none" or the OS error hit while reading the pipes or waiting.
await_ready(future, c, fault) ==
    \/ future.tag = "Err" /\ fault = "none"
    \/ future.tag = "Ok" /\ fault = "none" /\ c.st = "exited"
    \/ future.tag = "Ok" /\ fault \in IoErrors
          /\ c.st \in {"running", "blocked", "exited"}

\* future.await: its value, an io::Result<Output>.
await_out(future, c, fault) ==
    IF future.tag = "Err" THEN Err(future.err)
    ELSE IF fault # "none" THEN Err(fault)
    ELSE Ok([status |-> c.status, stdout |-> c.stdout, stderr |-> c.stderr])

\* "OUT:\n" + stdout + "\n\nERR:\n" + stderr
out_text(out) ==
    S_OUT \o ascii_bytes_to_string(out.stdout)
        \o S_ERR \o ascii_bytes_to_string(out.stderr)

\* Mutant of complete: a non-zero exit status is turned into an error.
complete_status_checked(self, out) ==
    IF out.tag = "Err" \/ out.val.status # 0
    THEN Err([program |-> ProgramAndArgs_fmt(self.program),
              error |-> IF out.tag = "Err" THEN out.err ELSE "EIO"])
    ELSE Ok(out_text(out.val))

\* RunProgress::complete after future.await returned out.
complete(self, out) ==
    IF self.future.tag = "Some"
    THEN IF out.tag = "Err"
         THEN Err([program |-> ProgramAndArgs_fmt(self.program), error |-> out.err])
         ELSE Ok(out_text(out.val))
    ELSE [tag |-> "Panic"]

\* Mutant of complete_chainable: a failure's value is the text of the I/O
\* error alone, not of the RunError that names the program.
complete_chainable_io_error_text(self, out) ==
    IF self.future.tag = "Some"
    THEN IF out.tag = "Err"
         THEN FlagTwin_new(Err(io_error_fmt(out.err)))
         ELSE FlagTwin_new(Ok(out_text(out.val)))
    ELSE [tag |-> "Panic"]

\* RunProgress::complete_chainable after future.await returned out.
complete_chainable(self, out) ==
    IF self.future.tag = "Some"
    THEN IF out.tag = "Err"
         THEN FlagTwin_new(Err(RunError_fmt(
                  [program |-> ProgramAndArgs_fmt(self.program), error |-> out.err])))
         ELSE FlagTwin_new(Ok(out_text(out.val)))
    ELSE [tag |-> "Panic"]

\* ------------------------------------------------------ report functions

Reports == {"content_locate_binaries", "content_ls", "content_ls2"}

\* The number of handles each report function creates.
NumHandles(r) == IF r = "content_ls" THEN 5 ELSE 4

\* The i-th handle creation of content_locate_binaries.
content_locate_binaries_run(i, os) ==
    CASE i = 1 -> where_is(S_FREE, os)
      [] i = 2 -> where_is(S_DF, os)
      [] i = 3 -> where_is(S_MOUNT, os)
      [] i = 4 -> where_is(S_TREE, os)

\* The i-th handle creation of content_ls.
content_ls_run(i, os) ==
    CASE i = 1 -> ls_l(S_CUR, os)
      [] i = 2 -> ls_l(S_ROOT, os)
      [] i = 3 -> ls(S_BIN, os)
      [] i = 4 -> ls(S_SBIN, os)
      [] i = 5 -> ls_l(S_TMP, os)

\* The i-th handle creation of content_ls2.
content_ls2_run(i, os) ==
    CASE i = 1 -> ls(S_CUR, os)
      [] i = 2 -> ls(S_ROOT, os)
      [] i = 3 -> ls(S_BIN, os)
      [] i = 4 -> ls(S_SBIN, os)

report_run(r, i, os) ==
    CASE r = "content_locate_binaries" -> content_locate_binaries_run(i, os)
      [] r = "content_ls" -> content_ls_run(i, os)
      [] r = "content_ls2" -> content_ls2_run(i, os)

RECURSIVE try_each_completion_order(_, _, _)
\* Mutant of try_each: the payloads are collected newest first instead of in
\* declared order.
try_each_completion_order(rs, k, acc) ==
    IF k > Len(rs) THEN Ok(acc)
    ELSE IF rs[k].tag = "Err" THEN Err(rs[k].err)
    ELSE try_each_completion_order(rs, k + 1, <<rs[k].val>> \o acc)

RECURSIVE try_each(_, _, _)
\* The ? operators of Ok((r1?, r2?, ..., rN?)), evaluated left to right from
\* the k-th on: the first Err is returned, else Ok of all the payloads.
try_each(rs, k, acc) ==
    IF k > Len(rs) THEN Ok(acc)
    ELSE IF rs[k].tag = "Err" THEN Err(rs[k].err)
    ELSE try_each(rs, k + 1, Append(acc, rs[k].val))

RECURSIVE last_error(_, _)
\* Mutant of ok_filter: the tuple's results are unwrapped from the right, so
\* the last failing operation's error is the one returned.
last_error(rs, k) ==
    IF k = 0 THEN Ok([i \in 1..Len(rs) |-> rs[i].val])
    ELSE IF rs[k].tag = "Err" THEN Err(rs[k].err)
    ELSE last_error(rs, k - 1)

ok_filter_last_error(rs) == last_error(rs, Len(rs))

\* The ok_filter closure: || Ok((free?, df?, mount?, tree?)).
ok_filter(rs) == try_each(rs, 1, <<>>)

\* The ok_formatter closure of content_locate_binaries.
locate_binaries_formatter(t) ==
    S_EMPTY \o t[1] \o S_NL \o t[2] \o S_NL \o t[3] \o S_NL \o t[4]

\* The ok_formatter closure of content_ls.
ls_formatter(t) ==
    S_LBL_CURRENT \o t[1] \o S_LBL_ROOT \o t[2] \o S_LBL_BIN \o t[3]
        \o S_LBL_SBIN \o t[4] \o S_LBL_TMP \o t[5]

\* A call of an ok_formatter closure, named by the report function it is of.
ok_formatter_call(ok_formatter, content) ==
    IF ok_formatter = "content_ls" THEN ls_formatter(content)
    ELSE locate_binaries_formatter(content)

\* filtered is the value of ok_filter().
all_ok_formatted_or_first_error(filtered, ok_formatter) ==
    IF filtered.tag = "Ok" THEN Ok(ok_formatter_call(ok_formatter, filtered.val))
    ELSE Err(RunError_fmt(filtered.err))

\* The value content_locate_binaries returns from its four results.
content_locate_binaries(rs) ==
    all_ok_formatted_or_first_error(ok_filter(rs), "content_locate_binaries")

\* The value content_ls returns from its five results.
content_ls(rs) ==
    all_ok_formatted_or_first_error(ok_filter(rs), "content_ls")

\* content_ls2: let chained = current.and(root).and(bin).and(sbin);
content_ls2_chained(ts) ==
    FlagTwin_and(FlagTwin_and(FlagTwin_and(ts[1], ts[2]), ts[3]), ts[4])

\* ------------------------------------------------------- sample processes

\* What a child prints: sample 0 is a one-line path on stdout, sample 1 a
\* non-ASCII byte on stderr.
SampleOutput(o) ==
    IF o % 2 = 0 THEN [stdout |-> <<47, 120, 10>>, stderr |-> <<>>]
    ELSE [stdout |-> <<>>, stderr |-> <<255>>]

\* How a child can end: its exit status and what it printed.
ProcessRuns ==
    {[status |-> k \div 2,
      stdout |-> SampleOutput(k).stdout,
      stderr |-> SampleOutput(k).stderr] : k \in 0..MaxRun}

\* ------------------------------------------------------------------ state

VARIABLES
    report,    \* the report function this asynchronous context runs
    pc,        \* where the report function stands: [phase, idx]
    handles,   \* the RunProgress of each handle, in declared order
    child,     \* the OS process of each handle
    out,       \* per handle, what future.await returned (io::Result<Output>)
    results,   \* per handle, what complete() returned (Policy A reports)
    twins,     \* per handle, what complete_chainable() returned (content_ls2)
    chained,   \* content_ls2's aggregate
    result,    \* the value the report function returned
    consumed,  \* per handle, how often it was completed and how often dropped
    leaves,    \* SpecPair: the twins paired so far
    chain,     \* SpecPair: the pairable/pair_first/pair chain built so far
    bindings,  \* SpecPair: where flatten!'s pattern binds each of its names
    bytes,     \* SpecBytes: the bytes given to ascii_bytes_to_string
    decoded,   \* SpecBytes: the String it returned
    prev,      \* SpecCombine: the twin that link / and was called on
    operand,   \* SpecCombine: the result or twin it was called with
    combined,  \* SpecCombine: the twin it returned (the chain, left to right)
    regrouped  \* SpecCombine: the same twins combined as a.and(b.and(c...))

vars == <<report, pc, handles, child, out, results, twins, chained, result,
          consumed, leaves, chain, bindings, bytes, decoded, prev, operand,
          combined, regrouped>>

pairvars == <<leaves, chain>>
bytevars == <<bytes, decoded>>
combinevars == <<prev, operand, combined, regrouped>>
\* What the report functions leave alone.
purevars == <<pairvars, bindings, bytevars, combinevars>>

\* The pure-function specifications' variables while they are not in use.
PureIdle ==
    /\ leaves = <<>>
    /\ chain = None
    /\ bindings = None
    /\ bytes = <<>>
    /\ decoded = None
    /\ prev = None
    /\ operand = None
    /\ combined = None
    /\ regrouped = None

\* The report functions' variables while none of them runs.
ReportIdle ==
    /\ report = "none"
    /\ pc = [phase |-> "idle", idx |-> 0]
    /\ handles = <<>>
    /\ child = <<>>
    /\ out = <<>>
    /\ results = <<>>
    /\ twins = <<>>
    /\ chained = None
    /\ result = None
    /\ consumed = <<>>
reportvars == <<report, pc, handles, child, out, results, twins, chained, result,
                consumed>>

Handles == 1..NumHandles(report)

At(phase, idx) == [phase |-> phase, idx |-> idx]

Init ==
    /\ report \in Reports
    /\ pc = At("run", 1)
    /\ handles = [i \in Handles |-> [tag |-> "Unborn"]]
    /\ child = [i \in Handles |-> [st |-> "unborn"]]
    /\ out = [i \in Handles |-> None]
    /\ results = [i \in Handles |-> None]
    /\ twins = [i \in Handles |-> None]
    /\ chained = None
    /\ result = None
    /\ consumed = [i \in Handles |-> [completed |-> 0, dropped |-> 0]]
    /\ PureIdle

\* let <handle i> = where_is(..) / ls(..) / ls_l(..): the i-th handle is
\* created, which spawns its child.
Run(i) ==
    /\ pc = At("run", i)
    /\ \E os \in {"ok"} \cup SpawnErrors :
         LET r == report_run(report, i, os)
         IN  /\ handles' = [handles EXCEPT ![i] = r.progress]
             /\ child' = [child EXCEPT ![i] = r.child]
    /\ pc' = IF i < NumHandles(report) THEN At("run", i + 1) ELSE At("await", 1)
    /\ UNCHANGED <<report, out, results, twins, chained, result, consumed, purevars>>

\* The OS: a running child exits, with some status and output.
ChildExit(i) ==
    /\ child[i].st = "running"
    /\ \E p \in ProcessRuns :
         child' = [child EXCEPT ![i] =
                     [st |-> "exited", kill_on_drop |-> child[i].kill_on_drop,
                      status |-> p.status, stdout |-> p.stdout, stderr |-> p.stderr]]
    /\ UNCHANGED <<report, pc, handles, out, results, twins, chained, result, consumed,
                   purevars>>

\* The OS: a running child whose handle is not being awaited fills its
\* output pipe and blocks (its output is read only while it is awaited).
ChildBlocks(i) ==
    /\ child[i].st = "running"
    /\ pc # At("await", i)
    /\ child' = [child EXCEPT ![i].st = "blocked"]
    /\ UNCHANGED <<report, pc, handles, out, results, twins, chained, result, consumed,
                   purevars>>

\* Mutant of wait_with_output_poll: polling the future reads nothing from
\* the child's pipes.
wait_with_output_poll_no_read(c) == c

\* One poll of child?.wait_with_output() while the child has not exited:
\* what the child wrote to its stdout and stderr pipes is read, so a child
\* blocked on a full pipe runs again.
wait_with_output_poll(c) == [c EXCEPT !.st = "running"]

\* <handle i>.complete().await polled while its child runs: the pipes are
\* drained, which unblocks the child, and the report stays suspended.
PollPending(i) ==
    /\ pc = At("await", i)
    /\ child[i].st = "blocked"
    /\ child' = [child EXCEPT ![i] = wait_with_output_poll(@)]
    /\ UNCHANGED <<report, pc, handles, out, results, twins, chained, result, consumed,
                   purevars>>

\* Mutant of after_complete: complete borrows the handle, which stays owned
\* by the report function.
after_complete_borrowed(self) == self

\* complete(self) takes the handle by value: the caller no longer owns it.
after_complete(self) == [tag |-> "Moved"]

\* Mutant of await_next: once an await has returned an error the remaining
\* handles are not awaited.
await_next_short_circuit(r, i, outcome) ==
    i < NumHandles(r) /\ ~("tag" \in DOMAIN outcome /\ outcome.tag = "Err")

\* Whether report function r, after its i-th await returned outcome, goes on
\* to await handle i + 1: the awaits are the elements of one tuple
\* expression, each evaluated whatever the earlier ones returned.
await_next(r, i, outcome) == i < NumHandles(r)

\* <handle i>.complete().await (complete_chainable in content_ls2) returns:
\* future.await is ready, the outcome is built and the report function goes
\* on to await the next handle, or, after the last one, to its end:
\* content_locate_binaries and content_ls return their aggregate,
\* content_ls2 builds chained and reaches todo!().
Complete(i) ==
    /\ pc = At("await", i)
    /\ handles[i].tag = "RunProgress"
    /\ \E fault \in {"none"} \cup IoErrors :
         LET self == handles[i]
             future == self.future.val
             o == await_out(future, child[i], fault)
             r == IF report = "content_ls2" THEN complete_chainable(self, o)
                  ELSE complete(self, o)
             rs == [results EXCEPT ![i] = r]
             ts == [twins EXCEPT ![i] = r]
         IN  /\ self.future.tag = "Some" => await_ready(future, child[i], fault)
             /\ out' = [out EXCEPT ![i] = o]
             /\ child' = [child EXCEPT ![i] =
                            IF future.tag = "Ok" THEN drop_child(@) ELSE @]
             /\ handles' = [handles EXCEPT ![i] = after_complete(self)]
             /\ consumed' = [consumed EXCEPT ![i].completed = @ + 1]
             /\ IF report = "content_ls2"
                THEN twins' = ts /\ UNCHANGED results
                ELSE results' = rs /\ UNCHANGED twins
             /\ IF "tag" \in DOMAIN r /\ r.tag = "Panic"
                THEN pc' = At("panicked", 0) /\ UNCHANGED <<chained, result>>
                ELSE IF await_next(report, i, r)
                THEN pc' = At("await", i + 1) /\ UNCHANGED <<chained, result>>
                ELSE CASE report = "content_locate_binaries" ->
                            /\ result' = content_locate_binaries(rs)
                            /\ pc' = At("done", 0)
                            /\ UNCHANGED chained
                       [] report = "content_ls" ->
                            /\ result' = content_ls(rs)
                            /\ pc' = At("done", 0)
                            /\ UNCHANGED chained
                       [] report = "content_ls2" ->
                            /\ chained' = content_ls2_chained(ts)
                            /\ pc' = At("panicked", 0)
                            /\ UNCHANGED result
    /\ UNCHANGED <<report, purevars>>

\* The asynchronous context is cancelled or dropped while the report
\* function is suspended at an await, or before it was first polled: every
\* handle it still owns is dropped, and with it the handle's child and the
\* results collected so far.
Drop ==
    /\ pc.phase = "await" \/ pc = At("run", 1)
    /\ handles' = [j \in Handles |->
                     IF handles[j].tag = "RunProgress" THEN [tag |-> "Dropped"]
                     ELSE handles[j]]
    /\ child' = [j \in Handles |->
                   IF handles[j].tag = "RunProgress" /\ handles[j].future.val.tag = "Ok"
                   THEN drop_child(child[j]) ELSE child[j]]
    /\ consumed' = [j \in Handles |->
                      IF handles[j].tag = "RunProgress"
                      THEN [consumed[j] EXCEPT !.dropped = @ + 1] ELSE consumed[j]]
    /\ out' = [j \in Handles |-> None]
    /\ results' = [j \in Handles |-> None]
    /\ twins' = [j \in Handles |-> None]
    /\ pc' = At("dropped", 0)
    /\ UNCHANGED <<report, chained, result, purevars>>

Next ==
    \/ \E i \in Handles : Run(i)
    \/ \E i \in Handles : ChildExit(i)
    \/ \E i \in Handles : ChildBlocks(i)
    \/ \E i \in Handles : PollPending(i)
    \/ \E i \in Handles : Complete(i)
    \/ Drop

Spec == Init /\ [][Next]_vars

\* ------------------------------------- a report polled to its completion

\* The most handles a report function creates.
MaxHandles == NumHandles("content_ls")

\* <handle i>.complete().await returns without an I/O error on the pipes or
\* on the wait: the child has exited, or was never spawned.
CompleteNoFault(i) ==
    /\ i \in Handles
    /\ Complete(i)
    /\ ~(out'[i].tag = "Err" /\ out'[i].err \in IoErrors)

\* The OS: the child of the handle being awaited exits.
AwaitedChildExit(i) ==
    /\ i \in Handles
    /\ pc = At("await", i)
    /\ ChildExit(i)

\* The report function's future is polled by its task until it is ready and
\* is never dropped.
NextLive ==
    \/ \E i \in Handles : Run(i)
    \/ \E i \in Handles : ChildExit(i)
    \/ \E i \in Handles : ChildBlocks(i)
    \/ \E i \in Handles : PollPending(i)
    \/ \E i \in Handles : Complete(i)

\* The runtime polls a task that can make progress: the report function runs
\* up to its next await, an await whose child wrote to its pipes is polled,
\* and an await whose child exited is woken. A child whose output is being
\* read exits. No run is bound to hit an I/O error, and a child that is not
\* awaited is not bound to exit.
Fairness ==
    \A i \in 1..MaxHandles :
        /\ WF_vars(i \in Handles /\ Run(i))
        /\ WF_vars(i \in Handles /\ PollPending(i))
        /\ WF_vars(AwaitedChildExit(i))
        /\ WF_vars(CompleteNoFault(i))

SpecLive == Init /\ [][NextLive]_vars /\ Fairness

\* ----------------------------------------------- the pairing chain alone

\* The values a leaf twin carries.
LeafValues == {S_OUT, S_EIO}

LeafTwins == [is_ok : BOOLEAN, value : LeafValues]

InitPair ==
    /\ ReportIdle
    /\ PureIdle

\* chain = t.pairable()
Pairable(t) ==
    /\ leaves = <<>>
    /\ bindings = None
    /\ chain' = pairable(t)
    /\ leaves' = <<t>>
    /\ UNCHANGED <<reportvars, bindings, bytevars, combinevars>>

\* chain = chain.pair_first(t)
PairFirst(t) ==
    /\ Len(leaves) = 1
    /\ Len(leaves) < MaxTwins
    /\ bindings = None
    /\ chain' = pair_first(chain, t)
    /\ leaves' = Append(leaves, t)
    /\ UNCHANGED <<reportvars, bindings, bytevars, combinevars>>

\* chain = chain.pair(t)
Pair(t) ==
    /\ Len(leaves) >= 2
    /\ Len(leaves) < MaxTwins
    /\ bindings = None
    /\ chain' = pair(chain, t)
    /\ leaves' = Append(leaves, t)
    /\ UNCHANGED <<reportvars, bindings, bytevars, combinevars>>

\* A pattern: a name to bind, or a tuple pattern of two patterns.
PVar(name) == [tag |-> "var", name |-> name]
PTuple(l, r) == [tag |-> "tuple", l |-> l, r |-> r]

RECURSIVE flatten_PARTIAL_right(_, _, _)
\* Mutant of flatten_PARTIAL: the next pattern is put to the left of the
\* cumulated one.
flatten_PARTIAL_right(all_ok, cumulated, rest) ==
    IF Len(rest) > 0
    THEN flatten_PARTIAL_right(all_ok, PTuple(Head(rest), cumulated), Tail(rest))
    ELSE PTuple(all_ok, cumulated)

RECURSIVE flatten_PARTIAL(_, _, _)
\* The PARTIAL rules of flatten!: (cumulated, next) is cumulated while
\* patterns are left, then (all_ok, cumulated) is the expansion.
flatten_PARTIAL(all_ok, cumulated, rest) ==
    IF Len(rest) > 0
    THEN flatten_PARTIAL(all_ok, PTuple(cumulated, Head(rest)), Tail(rest))
    ELSE PTuple(all_ok, cumulated)

\* flatten!(all_ok, p1, ..., pN): the first rule for one pattern, the
\* second for two or more.
flatten(all_ok, tuples) ==
    IF Len(tuples) = 1 THEN PTuple(all_ok, tuples[1])
    ELSE flatten_PARTIAL(all_ok, PTuple(tuples[1], tuples[2]),
                         SubSeq(tuples, 3, Len(tuples)))

RECURSIVE pattern_names(_)
\* The names a pattern binds.
pattern_names(pat) ==
    IF pat.tag = "var" THEN {pat.name}
    ELSE pattern_names(pat.l) \cup pattern_names(pat.r)

RECURSIVE bound_at(_, _)
\* Where in the matched value a pattern binds a name: the tuple fields
\* (1 or 2) to go through, from the outside in.
bound_at(pat, name) ==
    IF pat.tag = "var" THEN <<>>
    ELSE IF name \in pattern_names(pat.l) THEN <<1>> \o bound_at(pat.l, name)
    ELSE <<2>> \o bound_at(pat.r, name)

\* let flatten!(all_ok, p1, ..., pN) = chain.split(): name 0 is all_ok,
\* name i is p_i.
Destructure ==
    /\ leaves # <<>>
    /\ bindings = None
    /\ bindings' =
          LET pat == flatten(PVar(0), [i \in 1..Len(leaves) |-> PVar(i)])
          IN  [tag |-> "Some",
               val |-> [k \in 0..Len(leaves) |-> bound_at(pat, k)]]
    /\ UNCHANGED <<reportvars, pairvars, bytevars, combinevars>>

NextPair ==
    \/ \E t \in LeafTwins : Pairable(t)
    \/ \E t \in LeafTwins : PairFirst(t)
    \/ \E t \in LeafTwins : Pair(t)
    \/ Destructure

SpecPair == InitPair /\ [][NextPair]_vars

\* ------------------------------------------- ascii_bytes_to_string alone

\* Every value of a u8.
Byte == 0..255

\* The bytes the other positions hold while one position takes every value.
ByteSamples == {0, 127, 128, 255}

InitBytes ==
    /\ ReportIdle
    /\ PureIdle

\* One more byte of input: every byte value at every position, next to
\* sample bytes at the other positions.
PushByte(b) ==
    /\ decoded = None
    /\ Len(bytes) < MaxBytes
    /\ b \in ByteSamples \/ \A k \in 1..Len(bytes) : bytes[k] \in ByteSamples
    /\ bytes' = Append(bytes, b)
    /\ UNCHANGED <<reportvars, pairvars, bindings, decoded, combinevars>>

\* decoded = ascii_bytes_to_string(bytes)
Decode ==
    /\ decoded = None
    /\ decoded' = [tag |-> "Some", val |-> ascii_bytes_to_string(bytes)]
    /\ UNCHANGED <<reportvars, pairvars, bindings, bytes, combinevars>>

NextBytes ==
    \/ \E b \in Byte : PushByte(b)
    \/ Decode

SpecBytes == InitBytes /\ [][NextBytes]_vars

\* ------------------------------------------------- new, link and and alone

\* The results a twin is made from or linked with: Ok(v) and Err(v).
TwinResults == {Ok(v) : v \in LeafValues} \cup {Err(v) : v \in LeafValues}

RECURSIVE and_from_right(_)
\* t1.and(t2.and( ... .and(tN))): the twins combined from the right.
and_from_right(ts) ==
    IF Len(ts) = 1 THEN ts[1]
    ELSE FlagTwin_and(ts[1], and_from_right(Tail(ts)))

InitCombine ==
    /\ ReportIdle
    /\ PureIdle

\* combined = FlagTwin::new(r)
New(r) ==
    /\ combined = None
    /\ combined' = FlagTwin_new(r)
    /\ leaves' = <<FlagTwin_new(r)>>
    /\ regrouped' = FlagTwin_new(r)
    /\ UNCHANGED <<reportvars, chain, bindings, bytevars, prev, operand>>

\* combined = combined.link(r)
Link(r) ==
    /\ combined # None
    /\ Len(leaves) < MaxTwins
    /\ prev' = combined
    /\ operand' = r
    /\ combined' = FlagTwin_link(combined, r)
    /\ leaves' = Append(leaves, FlagTwin_new(r))
    /\ regrouped' = and_from_right(Append(leaves, FlagTwin_new(r)))
    /\ UNCHANGED <<reportvars, chain, bindings, bytevars>>

\* combined = combined.and(t)
And(t) ==
    /\ combined # None
    /\ Len(leaves) < MaxTwins
    /\ prev' = combined
    /\ operand' = t
    /\ combined' = FlagTwin_and(combined, t)
    /\ leaves' = Append(leaves, t)
    /\ regrouped' = and_from_right(Append(leaves, t))
    /\ UNCHANGED <<reportvars, chain, bindings, bytevars>>

NextCombine ==
    \/ \E r \in TwinResults : New(r)
    \/ \E r \in TwinResults : Link(r)
    \/ \E t \in LeafTwins : And(t)

SpecCombine == InitCombine /\ [][NextCombine]_vars

\* ================================================================= claims

PolicyA == report \in {"content_locate_binaries", "content_ls"}

\* The payload complete() builds from a captured output.
Payload(o) ==
    <<79, 85, 84, 58, 10>> \o [k \in 1..Len(o.stdout) |-> o.stdout[k]]
        \o <<10, 10, 69, 82, 82, 58, 10>> \o [k \in 1..Len(o.stderr) |-> o.stderr[k]]

\* The program and arguments of the i-th declared operation of report r.
DeclaredProgram(r, i) ==
    CASE r = "content_locate_binaries" ->
            S_USR_BIN_WHICH \o S_SPACE \o <<S_FREE, S_DF, S_MOUNT, S_TREE>>[i]
      [] r = "content_ls" ->
            S_LS \o S_SPACE
               \o <<S_DASH_L \o S_SPACE \o S_CUR, S_DASH_L \o S_SPACE \o S_ROOT,
                    S_BIN, S_SBIN, S_DASH_L \o S_SPACE \o S_TMP>>[i]
      [] r = "content_ls2" ->
            S_LS \o S_SPACE \o <<S_CUR, S_ROOT, S_BIN, S_SBIN>>[i]

\* The text of the error of operation i whose OS error is e.
RenderedError(r, i, e) ==
    S_EXPECTED_TO_RUN \o DeclaredProgram(r, i) \o S_BUT_FAILED_ABRUPTLY
        \o (IF e = "ENOENT" THEN S_ENOENT ELSE S_EIO) \o S_DOT

\* C1: when a Policy A report function has returned and operation k is the
\* first in declared order whose await failed, the returned value is Err of
\* exactly operation k's rendered error text, whatever the later operations
\* did and in whatever order the children finished.
Thm_C1 ==
    (PolicyA /\ pc.phase = "done") =>
        \A k \in Handles :
            (out[k].tag = "Err" /\ \A j \in 1..(k - 1) : out[j].tag = "Ok")
                => result = Err(RenderedError(report, k, out[k].err))

\* C1's case: content_ls returned, operation 2 is the first to fail, operation
\* 3 failed too (differently) and operations 1 and 4 succeeded.
Wit_C1 ==
    /\ report = "content_ls" /\ pc.phase = "done"
    /\ out[1].tag = "Ok" /\ out[2] = Err("EIO") /\ out[3] = Err("ENOENT")
    /\ out[4].tag = "Ok"
    /\ result.tag = "Err"

RECURSIVE Labelled(_, _, _)
\* label_i payload_i ... label_N payload_N, in declared order.
Labelled(labels, payloads, i) ==
    IF i > Len(labels) THEN <<>>
    ELSE labels[i] \o payloads[i] \o Labelled(labels, payloads, i + 1)

\* The labels each Policy A formatter puts before the payloads.
Labels(r) ==
    IF r = "content_ls"
    THEN <<S_LBL_CURRENT, S_LBL_ROOT, S_LBL_BIN, S_LBL_SBIN, S_LBL_TMP>>
    ELSE <<S_EMPTY, S_NL, S_NL, S_NL>>

\* C2: when a Policy A report function has returned and all N awaits
\* succeeded, the returned value is Ok of the formatter's text over the N
\* payloads in declared order, whatever the order the children finished in.
Thm_C2 ==
    (PolicyA /\ pc.phase = "done" /\ \A i \in Handles : out[i].tag = "Ok") =>
        result = Ok(Labelled(Labels(report),
                             [i \in Handles |-> Payload(out[i].val)], 1))

\* C2's case: content_ls returned a report whose first two payloads differ.
Wit_C2 ==
    /\ report = "content_ls" /\ pc.phase = "done"
    /\ \A i \in Handles : out[i].tag = "Ok"
    /\ out[1].val.stdout # out[2].val.stdout
    /\ result.tag = "Ok"

\* C3: once the asynchronous context of a report was dropped, no child of
\* the report is running any more, neither the one that was being awaited
\* nor those not yet awaited.
Thm_C3 ==
    pc.phase = "dropped" =>
        \A i \in Handles : child[i].st \notin {"running", "blocked"}

\* C3's case: the context was dropped after handle 1 completed; the child of
\* handle 2 (being awaited) and that of handle 3 (not yet awaited) were killed.
Wit_C3 ==
    /\ pc.phase = "dropped"
    /\ consumed[1].completed = 1
    /\ consumed[2].dropped = 1 /\ child[2].st = "killed"
    /\ consumed[3].dropped = 1 /\ child[3].st = "killed"

\* C4: whenever a report function is suspended at an await, all of its N
\* handles have been created and the launch of every child was attempted.
Thm_C4 ==
    pc.phase = "await" =>
        \A i \in Handles :
            handles[i].tag # "Unborn" /\ child[i].st # "unborn"

\* C4's case: the first handle is awaited while all N children are running.
Wit_C4 ==
    /\ pc = At("await", 1)
    /\ \A i \in Handles : child[i].st = "running"

RECURSIVE Leaf(_, _, _)
\* The i-th leaf of the left-nested value of a chain over n twins.
Leaf(value, n, i) ==
    IF n = 1 THEN value
    ELSE IF i = n THEN value[2]
    ELSE Leaf(value[1], n - 1, i)

\* C5: for a chain pairable().pair_first(t2).pair(t3)...pair(tN), the
\* top-level is_ok is the conjunction of all N leaves' is_ok and the i-th
\* leaf of the nested value is the i-th twin's own (is_ok, value).
Thm_C5 ==
    leaves # <<>> =>
        /\ chain.is_ok = (\A i \in 1..Len(leaves) : leaves[i].is_ok)
        /\ \A i \in 1..Len(leaves) :
              Leaf(chain.value, Len(leaves), i) = <<leaves[i].is_ok, leaves[i].value>>

\* C5's case: a chain over three or more twins, the second of which failed
\* while the last succeeded.
Wit_C5 ==
    /\ Len(leaves) >= 3
    /\ ~leaves[2].is_ok
    /\ leaves[Len(leaves)].is_ok
    /\ ~chain.is_ok

\* C6: the aggregate content_ls2 builds determines every operation's own
\* success flag: no other assignment of flags to the same four values gives
\* the same aggregate.
Claim_C6 ==
    (report = "content_ls2" /\ chained # None) =>
        \A f \in [Handles -> BOOLEAN] :
            content_ls2_chained(
                [i \in Handles |-> [is_ok |-> f[i], value |-> twins[i].value]]) = chained
            => f = [i \in Handles |-> twins[i].is_ok]

\* C7: no handle is completed and dropped, or completed twice, or dropped
\* twice; and when the report function has ended (returned, panicked or been
\* dropped) every handle it created was completed once or dropped once.
Thm_C7 ==
    \A i \in Handles :
        /\ consumed[i].completed + consumed[i].dropped <= 1
        /\ (pc.phase \in {"done", "panicked", "dropped"} /\ handles[i].tag # "Unborn")
              => consumed[i].completed + consumed[i].dropped = 1

\* C7's case: an execution cut short by a drop, with handle 1 completed and
\* the last handle dropped.
Wit_C7 ==
    /\ pc.phase = "dropped"
    /\ consumed[1] = [completed |-> 1, dropped |-> 0]
    /\ consumed[NumHandles(report)] = [completed |-> 0, dropped |-> 1]

\* C8: whenever the await of a handle returned the captured output, with
\* whatever exit status, the outcome of complete() is Ok of the payload over
\* that stdout and stderr, and that of complete_chainable() a twin with
\* is_ok and the same payload.
Thm_C8 ==
    \A i \in Handles :
        out[i].tag = "Ok" =>
            IF report = "content_ls2"
            THEN twins[i] = [is_ok |-> TRUE, value |-> Payload(out[i].val)]
            ELSE results[i] = Ok(Payload(out[i].val))

\* C8's case: a child exited with a non-zero status and complete() gave Ok.
Wit_C8 ==
    /\ PolicyA
    /\ \E i \in Handles :
          /\ out[i].tag = "Ok" /\ out[i].val.status # 0
          /\ results[i].tag = "Ok"

\* Whether sub occurs in s.
Contains(s, sub) ==
    \E k \in 0..(Len(s) - Len(sub)) : SubSeq(s, k + 1, k + Len(sub)) = sub

\* C9: whenever the await of a handle failed, at the spawn or while reading
\* and waiting, complete() gives Err of a RunError with the program and
\* arguments of that same handle and the OS error, and both occur in the
\* error's rendered text.
Thm_C9 ==
    PolicyA =>
        \A i \in Handles :
            out[i].tag = "Err" =>
                /\ results[i] = Err([program |-> DeclaredProgram(report, i),
                                      error |-> out[i].err])
                /\ Contains(RunError_fmt(results[i].err), DeclaredProgram(report, i))
                /\ Contains(RunError_fmt(results[i].err),
                            IF out[i].err = "ENOENT" THEN S_ENOENT ELSE S_EIO)

\* C9's case: one handle failed at the spawn and another while reading.
Wit_C9 ==
    /\ PolicyA
    /\ \E i, j \in Handles :
          /\ out[i] = Err("ENOENT") /\ results[i].tag = "Err"
          /\ out[j] = Err("EIO") /\ results[j].tag = "Err"

\* C10: no report function panics, and one that has returned has returned a
\* report string (Ok) or an error string (Err).
Claim_C10 ==
    /\ pc.phase # "panicked"
    /\ pc.phase = "done" => result.tag \in {"Ok", "Err"}

\* Whether a captured output is one line on stdout, ended by "\n", and
\* nothing on stderr.
SingleLinePath(o) ==
    /\ o.stderr = <<>>
    /\ Len(o.stdout) >= 2
    /\ \A k \in 1..Len(o.stdout) : (o.stdout[k] = 10) = (k = Len(o.stdout))

RECURSIVE JoinLines(_)
\* The texts of a sequence, joined by "\n".
JoinLines(texts) ==
    IF Len(texts) = 1 THEN texts[1]
    ELSE texts[1] \o <<10>> \o JoinLines(Tail(texts))

\* C11: when the four lookups all succeed and each prints a single-line
\* path, content_locate_binaries returns exactly the four paths joined by
\* newlines in declared order (the paths taken without, or with, the
\* newline that ends their line), and nothing else.
Claim_C11 ==
    (/\ report = "content_locate_binaries" /\ pc.phase = "done"
     /\ \A i \in Handles : out[i].tag = "Ok" /\ SingleLinePath(out[i].val))
    => \/ result = Ok(JoinLines([i \in Handles |->
                        SubSeq(out[i].val.stdout, 1, Len(out[i].val.stdout) - 1)]))
       \/ result = Ok(JoinLines([i \in Handles |-> out[i].val.stdout]))

\* C12: ascii_bytes_to_string returns, for every byte sequence, a String
\* with as many characters as there are bytes, whose i-th character is the
\* code point equal to the i-th byte.
Thm_C12 ==
    decoded # None =>
        /\ Len(decoded.val) = Len(bytes)
        /\ \A i \in 1..Len(bytes) : decoded.val[i] = bytes[i]

\* C12's case: three bytes were decoded, among them one that is no ASCII
\* and no sample byte, and NUL.
Wit_C12 ==
    /\ decoded # None
    /\ Len(bytes) = 3
    /\ bytes[1] = 0 /\ bytes[2] = 200 /\ bytes[3] = 255
    /\ decoded.val[2] = 200

\* C13: a Policy A report function completes its handles in declared order,
\* and when it has returned, with a report or with an error, every one of
\* its handles was awaited to completion and no child of it is running.
Thm_C13 ==
    PolicyA =>
        /\ \A i \in Handles :
              consumed[i].completed = 1 =>
                  \A j \in 1..(i - 1) : consumed[j].completed = 1
        /\ pc.phase = "done" =>
              \A i \in Handles :
                  /\ consumed[i].completed = 1
                  /\ out[i] # None
                  /\ child[i].st \notin {"running", "blocked"}

\* C13's case: content_ls returned the error of its first operation, which
\* failed at the spawn, and its last handle was still awaited to its output.
Wit_C13 ==
    /\ report = "content_ls" /\ pc.phase = "done"
    /\ out[1] = Err("ENOENT")
    /\ out[5].tag = "Ok"
    /\ result.tag = "Err"

\* C14: after link (a twin combined with a raw result) and after and (a
\* twin combined with a twin), for every combination of the operands'
\* success, the result's is_ok is the conjunction of the two and its value
\* the pair (left value, right value), both unchanged.
Thm_C14 ==
    operand # None =>
        IF "tag" \in DOMAIN operand
        THEN /\ combined.is_ok = (prev.is_ok /\ operand.tag = "Ok")
             /\ combined.value =
                   <<prev.value,
                     IF operand.tag = "Ok" THEN operand.val ELSE operand.err>>
        ELSE /\ combined.is_ok = (prev.is_ok /\ operand.is_ok)
             /\ combined.value = <<prev.value, operand.value>>

\* C14's case: a failed twin was linked with a successful result.
Wit_C14 ==
    /\ operand # None
    /\ "tag" \in DOMAIN operand /\ operand.tag = "Ok"
    /\ ~prev.is_ok
    /\ ~combined.is_ok
    /\ combined.value[2] = operand.val

RECURSIVE LeftPath(_, _)
\* Where the i-th of n leaves is in ((((l1, l2), l3), ...), ln).
LeftPath(n, i) ==
    IF n = 1 THEN <<>>
    ELSE IF i = n THEN <<2>>
    ELSE <<1>> \o LeftPath(n - 1, i)

RECURSIVE ValueAt(_, _)
\* The part of a nested tuple at a path of tuple fields.
ValueAt(v, path) ==
    IF path = <<>> THEN v ELSE ValueAt(v[Head(path)], Tail(path))

\* C15: the pattern flatten!(all_ok, p1, ..., pN) destructures the split
\* chain over N twins as (all_ok, ((((p1, p2), p3), ...), pN)): all_ok is
\* bound to the chain's is_ok and p_i to the place of the i-th leaf of the
\* left-nested value, which holds the i-th declared twin's (is_ok, value).
Thm_C15 ==
    bindings # None =>
        LET n == Len(leaves)
            split == FlagTwin_split(chain)
        IN  /\ bindings.val[0] = <<1>>
            /\ ValueAt(split, bindings.val[0]) = chain.is_ok
            /\ \A i \in 1..n :
                  /\ bindings.val[i] = <<2>> \o LeftPath(n, i)
                  /\ ValueAt(split, bindings.val[i])
                        = <<leaves[i].is_ok, leaves[i].value>>

\* C15's case: the chain over four twins was destructured; the first is
\* found three tuples deep on the left and the fourth on the right.
Wit_C15 ==
    /\ bindings # None
    /\ Len(leaves) = 4
    /\ bindings.val[1] = <<2, 1, 1, 1>>
    /\ bindings.val[4] = <<2, 2>>

RECURSIVE LeftNest(_, _)
\* (((v1, v2), v3), ... vn)
LeftNest(vs, n) ==
    IF n = 1 THEN vs[1] ELSE <<LeftNest(vs, n - 1), vs[n]>>

RECURSIVE RightNest(_, _)
\* (vk, (vk+1, (... vn)))
RightNest(vs, k) ==
    IF k = Len(vs) THEN vs[k] ELSE <<vs[k], RightNest(vs, k + 1)>>

\* C16: the twins combined from the left, a.and(b).and(c), and from the
\* right, a.and(b.and(c)), have the same is_ok, and each holds the twins'
\* values in declaration order, nested to its side.
Thm_C16 ==
    Len(leaves) >= 2 /\ combined # None =>
        LET vs == [i \in 1..Len(leaves) |-> leaves[i].value]
        IN  /\ combined.is_ok = regrouped.is_ok
            /\ combined.value = LeftNest(vs, Len(vs))
            /\ regrouped.value = RightNest(vs, 1)

\* C16's case: three twins of which only the second failed.
Wit_C16 ==
    /\ combined # None
    /\ Len(leaves) = 3
    /\ leaves[1].is_ok /\ ~leaves[2].is_ok /\ leaves[3].is_ok
    /\ ~combined.is_ok /\ ~regrouped.is_ok
    /\ combined.value # regrouped.value

\* C17: a Policy A report function that is polled to its completion
\* eventually returns: each handle is awaited in declared order, the await
\* reads the child's pipes, so a child that blocked on a full pipe before it
\* was awaited runs again, exits, and the report goes on to the next handle.
Thm_C17 == PolicyA => <>(pc.phase = "done")

\* C17's case: the first await of a Policy A report has returned and the
\* second is on a child that blocked on a full pipe before it was awaited,
\* as has a child further down the declared order.
Wit_C17 ==
    /\ PolicyA
    /\ pc = At("await", 2)
    /\ results[1] # None
    /\ child[2].st = "blocked"
    /\ child[3].st = "blocked"

\* A step of the report function from its program position at.
ReportStepFrom(at) == pc = at /\ pc' # pc /\ pc'.phase # "dropped"

\* Whether an outcome of future.await is a spawn's error.
IsSpawnError(o) == o.tag = "Err" /\ o.err \in SpawnErrors

\* A spawn failure is seen as the error of its own handle's completion, and
\* of no other handle's.
SpawnFailureOnOwnHandle ==
    \A i \in Handles :
        /\ out[i].tag # "None" =>
              (IsSpawnError(out[i]) <=> child[i].st = "spawn_failed")
        /\ out[i].tag # "None" /\ child[i].st = "spawn_failed" =>
              IF report = "content_ls2"
              THEN twins[i] = [is_ok |-> FALSE,
                               value |-> RenderedError(report, i, out[i].err)]
              ELSE results[i] = Err([program |-> DeclaredProgram(report, i),
                                     error |-> out[i].err])

\* Creating handle i gives a handle, whatever the spawn did, takes the
\* report to its next statement and leaves every other handle, every other
\* child and every outcome as they were.
RunOnlyCreates ==
    \A i \in Handles :
        ReportStepFrom(At("run", i)) =>
            /\ handles'[i].tag = "RunProgress"
            /\ pc' = IF i < NumHandles(report) THEN At("run", i + 1)
                     ELSE At("await", 1)
            /\ \A j \in Handles \ {i} :
                  handles'[j] = handles[j] /\ child'[j] = child[j]
            /\ out' = out /\ results' = results /\ twins' = twins

\* Completing handle i leaves every other handle, child and outcome as
\* they were.
CompleteOnlyOwn ==
    \A i \in Handles :
        ReportStepFrom(At("await", i)) =>
            \A j \in Handles \ {i} :
                /\ handles'[j] = handles[j] /\ child'[j] = child[j]
                /\ out'[j] = out[j]
                /\ results'[j] = results[j] /\ twins'[j] = twins[j]

\* C18: creating a handle never fails and never panics; a program that
\* cannot be spawned is seen only as the error of complete() on its own
\* handle, and creating or completing a handle changes nothing of the other
\* handles, their children and their outcomes.
Thm_C18 ==
    /\ []SpawnFailureOnOwnHandle
    /\ [][RunOnlyCreates /\ CompleteOnlyOwn]_vars

\* C18's case: the first program could not be spawned and its completion
\* returned the spawn's error; the second handle, created after it, ran and
\* completed with its child's output.
Wit_C18 ==
    /\ child[1].st = "spawn_failed"
    /\ IsSpawnError(out[1])
    /\ child[2].st = "reaped"
    /\ out[2].tag = "Ok"

\* The i-th handle of the report as it was created.
CreatedHandle(i) == report_run(report, i, "ok").progress

\* C19: on every outcome future.await returns, complete_chainable yields
\* is_ok = TRUE exactly when complete yields Ok; its value is then complete's
\* payload, the "OUT:" section with stdout followed by the "ERR:" section
\* with stderr, and otherwise the rendered text of the error complete
\* yields. The outcome the report holds is the one its method returns.
Thm_C19 ==
    \A i \in Handles :
        out[i].tag # "None" =>
            LET c == complete(CreatedHandle(i), out[i])
                t == complete_chainable(CreatedHandle(i), out[i])
            IN  /\ IF report = "content_ls2" THEN twins[i] = t
                   ELSE results[i] = c
                /\ t.is_ok <=> c.tag = "Ok"
                /\ IF c.tag = "Ok"
                   THEN t.value = c.val /\ c.val = Payload(out[i].val)
                   ELSE t.value = RunError_fmt(c.err)

\* C19's case: content_ls2 holds a twin of a success and a twin of a failed
\* read.
Wit_C19 ==
    /\ report = "content_ls2"
    /\ out[1].tag = "Ok" /\ twins[1].is_ok
    /\ out[2].tag = "Err" /\ out[2].err \in IoErrors /\ ~twins[2].is_ok

====
